---- MODULE Spec2Model ----
(***************************************************************************)
(* Conformal calibration and interval construction of ExperimentPipeline   *)
(* (src/CPdM_pipeline.py).                                                 *)
(*                                                                         *)
(* Numbers.  Targets and raw model predictions are integers.  Every        *)
(* float the code derives from them (margins, interval bounds, widths)     *)
(* is a fixed-point integer in units of 1/SCALE, or NaN.  Quantiles and    *)
(* means of the inputs used here are exact at this resolution; the         *)
(* square root of np.std and the tables standing for scipy's norm.ppf and  *)
(* numpy's exp are rounded to it.                                          *)
(***************************************************************************)
EXTENDS Integers, Sequences, FiniteSets, TLC

VARIABLES
    df,                    \* self.df: the units, sorted by group_col
    random_state,          \* self.random_state
    results_metrics,       \* self.results_metrics, in insertion order
    files,                 \* weight files present in the target folder
    conformal_results_df,  \* self.conformal_results_df
    conformal_inference,   \* self.conformal_inference
    call                   \* the last call: its arguments and what it produced

vars == <<df, random_state, results_metrics, files,
          conformal_results_df, conformal_inference, call>>

(***************************************************************************)
(* Bounds of the model.                                                    *)
(***************************************************************************)
MaxLen == 4           \* longest raw prediction trajectory explored
MaxRaw == 3           \* largest raw prediction explored
MaxCal == 3           \* most calibration rows explored
BootB == 2            \* bootstrap resamples drawn (B, 200 in the code's calls)
sequence_length == 2  \* self.sequence_length (a constructor argument)

None == [none |-> TRUE]

(***************************************************************************)
(* Floats.                                                                 *)
(***************************************************************************)
SCALE == 6 * 100

NaN == [nan |-> TRUE, v |-> 0]
Fin(x) == [nan |-> FALSE, v |-> x]

Min2(a, b) == IF a < b THEN a ELSE b
Max2(a, b) == IF a > b THEN a ELSE b
Abs(x) == IF x < 0 THEN -x ELSE x

RECURSIVE SumSeq(_)
SumSeq(s) == IF s = <<>> THEN 0 ELSE Head(s) + SumSeq(Tail(s))

RECURSIVE MapClip0(_)
\* np.clip(s, 0, None) on an integer sequence
MapClip0(s) == IF s = <<>> THEN <<>> ELSE <<Max2(Head(s), 0)>> \o MapClip0(Tail(s))

RECURSIVE ISqrtBetween(_, _, _)
ISqrtBetween(x, lo, hi) ==
    IF lo = hi THEN lo
    ELSE LET mid == (lo + hi + 1) \div 2
         IN  IF mid * mid <= x THEN ISqrtBetween(x, mid, hi)
             ELSE ISqrtBetween(x, lo, mid - 1)

\* floor of the square root
ISqrt(x) == ISqrtBetween(x, 0, Min2(x, 46340))

\* a < b, a <= b, a >= b on floats: every comparison with NaN is False
FLt(a, b) == ~a.nan /\ ~b.nan /\ a.v < b.v
FLe(a, b) == ~a.nan /\ ~b.nan /\ a.v <= b.v
FGe(a, b) == ~a.nan /\ ~b.nan /\ a.v >= b.v

\* np.clip(x, 0, None) on a float: NaN stays NaN
FClip0(x) == IF x.nan THEN NaN ELSE Fin(Max2(x.v, 0))

\* a - b on floats
FSub(a, b) == IF a.nan \/ b.nan THEN NaN ELSE Fin(a.v - b.v)

(***************************************************************************)
(* Sorting: np.sort and np.argsort (insertion sort, which is what numpy     *)
(* runs on arrays this short; equal elements keep their order).            *)
(***************************************************************************)
RECURSIVE InsertSorted(_, _, _)
\* insert index i of a into the index list idx, after every index whose
\* value is <= a[i]
InsertSorted(a, idx, i) ==
    IF idx = <<>> THEN <<i>>
    ELSE IF a[Head(idx)] <= a[i] THEN <<Head(idx)>> \o InsertSorted(a, Tail(idx), i)
         ELSE <<i>> \o idx

RECURSIVE ArgSortUpTo(_, _)
ArgSortUpTo(a, k) ==
    IF k = 0 THEN <<>> ELSE InsertSorted(a, ArgSortUpTo(a, k - 1), k)

\* np.argsort(a): positions (1-based here) of a in ascending order of value
ArgSort(a) == ArgSortUpTo(a, Len(a))

\* np.sort(a)
Sort(a) == LET idx == ArgSort(a) IN [k \in 1..Len(a) |-> a[idx[k]]]

(***************************************************************************)
(* np.quantile(a, 1 - alpha), linear interpolation between order           *)
(* statistics.  alpha is a whole number of percent; a holds integers; the  *)
(* result is in units of 1/SCALE.                                          *)
(***************************************************************************)
Quantile(a, alpha) ==
    LET n == Len(a)
        sorted == Sort(a)
        h == (n - 1) * (100 - alpha)          \* virtual index, in hundredths
        lo == h \div 100
        frac == h % 100
    IN  IF frac = 0 THEN sorted[lo + 1] * SCALE
        ELSE sorted[lo + 1] * SCALE
             + (frac * (sorted[lo + 2] - sorted[lo + 1]) * SCALE) \div 100

\* np.median of a sequence of fixed-point values
MedianInts(a) ==
    LET n == Len(a)
        sorted == Sort(a)
    IN  IF n % 2 = 1 THEN sorted[(n + 1) \div 2]
        ELSE (sorted[n \div 2] + sorted[n \div 2 + 1]) \div 2

\* Mutant: the mean of the three in place of their median.
Median3_Mean(a, b, c) ==
    IF a.nan \/ b.nan \/ c.nan THEN NaN
    ELSE Fin((a.v + b.v + c.v) \div 3)

\* np.median([a, b, c]) on floats: NaN if any is NaN
Median3(a, b, c) ==
    IF a.nan \/ b.nan \/ c.nan THEN NaN
    ELSE Fin(MedianInts(<<a.v, b.v, c.v>>))

(***************************************************************************)
(* Calibration residuals.                                                  *)
(***************************************************************************)
\* preds_cal = np.clip(model_predict_fn(X), 0, None)
ClipPreds(raw) == MapClip0(raw)

\* y_cal - preds_cal
Residuals(y, preds) == [i \in 1..Len(y) |-> y[i] - preds[i]]

\* np.abs
AbsSeq(r) == [i \in 1..Len(r) |-> Abs(r[i])]

(***************************************************************************)
(* Margin estimators.                                                      *)
(***************************************************************************)
\* naive_quantile_margin
naive_quantile_margin(absolute_residuals, alpha) ==
    Fin(Quantile(absolute_residuals, alpha))

\* np.exp(i / (n / 5.0)) for i in 0..n-1, in thousandths
ExpTable ==
    <<  <<1000>>,
        <<1000, 12182>>,
        <<1000, 5294, 28032>>,
        <<1000, 3490, 12182, 42521>>,
        <<1000, 2718, 7389, 20086, 54598>>,
        <<1000, 2301, 5294, 12182, 28032, 64500>>,
        <<1000, 2043, 4173, 8524, 17412, 35567, 72654>>,
        <<1000, 1868, 3490, 6521, 12182, 22760, 42521, 79440>> >>

\* weights = np.exp(np.arange(n) / (n/5.0)); weights[k] here is the code's
\* weights[k-1]
Weights(n) == ExpTable[n]

RECURSIVE CumSum(_)
\* np.cumsum
CumSum(w) ==
    IF w = <<>> THEN <<>>
    ELSE LET front == CumSum(SubSeq(w, 1, Len(w) - 1))
         IN  Append(front, (IF front = <<>> THEN 0 ELSE front[Len(front)]) + w[Len(w)])

\* np.searchsorted(cdf, cutoff) with cutoff = (100 - alpha)/100 * total:
\* the number of entries strictly below the cutoff
SearchSorted(cdf, alpha, total) ==
    Cardinality({k \in 1..Len(cdf) : cdf[k] * 100 < (100 - alpha) * total})

\* weighted_exponential_margin / weighted_margin
weighted_exponential_margin(abs_res, alpha) ==
    LET n == Len(abs_res)
        sorted_res == Sort(abs_res)
        weights == Weights(n)
        w_sorted_idx == ArgSort(abs_res)
        w_sorted == [k \in 1..n |-> weights[w_sorted_idx[k]]]
        cdf == CumSum(w_sorted)
        total_w == cdf[n]
        idx == Min2(SearchSorted(cdf, alpha, total_w), n - 1)
    IN  Fin(sorted_res[idx + 1] * SCALE)

RECURSIVE rng_state_Carried(_, _)
\* Mutant: the generator is not seeded anew; calls made before have moved it.
rng_state_Carried(seed, k) ==
    IF k = 0
    THEN ((seed + IF conformal_results_df = None THEN 0 ELSE 1) * 7 + 3) % 65537
    ELSE (rng_state_Carried(seed, k - 1) * 75 + 74) % 65537

RECURSIVE rng_state(_, _)
\* np.random.default_rng(seed): the generator's state after k draws is a
\* function of the seed alone (a linear congruential generator stands for
\* PCG64)
rng_state(seed, k) ==
    IF k = 0 THEN (seed * 7 + 3) % 65537
    ELSE (rng_state(seed, k - 1) * 75 + 74) % 65537

\* rng.choice(abs_res, size=n, replace=True), the b-th resample drawn from a
\* generator seeded with seed
Resample(abs_res, seed, b) ==
    LET n == Len(abs_res)
    IN  [j \in 1..n |-> abs_res[((rng_state(seed, (b - 1) * n + j) \div 64) % n) + 1]]

\* samples: the (1 - alpha)-quantile of each of the B resamples
BootstrapSamples(abs_res, alpha, seed, B) ==
    [b \in 1..B |-> Quantile(Resample(abs_res, seed, b), alpha)]

\* bootstrap_margin of plot_conformal_prediction_interval: np.mean(samples)
bootstrap_margin_mean(abs_res, alpha, seed, B) ==
    Fin(SumSeq(BootstrapSamples(abs_res, alpha, seed, B)) \div B)

\* bootstrap_margin of the single-unit and per-unit operations: np.median(samples)
bootstrap_margin_median(abs_res, alpha, seed, B) ==
    Fin(MedianInts(BootstrapSamples(abs_res, alpha, seed, B)))

\* scipy.stats.norm.ppf(1 - alpha), in thousandths
NormPpfMilli(alpha) ==
    CASE alpha = 5 -> 1645
      [] alpha = 20 -> 842
      [] alpha = 50 -> 0
      [] alpha = 60 -> -253

\* np.std(res, ddof=1): NaN for a single residual (0/0)
StdDdof1(res) ==
    LET n == Len(res)
        s1 == SumSeq(res)
        s2 == SumSeq([i \in 1..n |-> res[i] * res[i]])
    IN  IF n = 1 THEN NaN
        ELSE Fin(ISqrt((SCALE * SCALE * (n * s2 - s1 * s1)) \div (n * (n - 1))))

\* parametric_margin: z_val * sigma
parametric_margin(res, alpha) ==
    LET sigma == StdDdof1(res)
    IN  IF sigma.nan THEN NaN
        ELSE Fin((NormPpfMilli(alpha) * sigma.v) \div 1000)

(***************************************************************************)
(* Prediction post-processing.                                             *)
(***************************************************************************)
RECURSIVE MonotonicFrom(_, _)
\* for i in range(1, len(preds)): if preds[i] > preds[i-1]: preds[i] = preds[i-1]
\* (in place: preds[i-1] is the value already written)
MonotonicFrom(preds, i) ==
    IF i > Len(preds) THEN preds
    ELSE MonotonicFrom(
            IF preds[i] > preds[i - 1] THEN [preds EXCEPT ![i] = preds[i - 1]] ELSE preds,
            i + 1)

\* Mutant: each element is compared with its raw left neighbour, not with the
\* value the pass has already written there.
MonotonicPass_NotInPlace(preds) ==
    [i \in 1..Len(preds) |->
        IF i > 1 /\ preds[i] > preds[i - 1] THEN preds[i - 1] ELSE preds[i]]

MonotonicPass(preds) == MonotonicFrom(preds, 2)

\* Mutant: the global operation starts with the pass.
FirstStageGlobal_Pass(raw) == MonotonicPass(raw)

\* tpreds = np.clip(model_predict_fn(X_test), 0, None): what the global
\* operation holds after the first of its two steps
FirstStageGlobal(raw) == MapClip0(raw)

\* the per-unit evaluator and the multi-unit plot after their loop, before clip
FirstStagePerUnit(raw) == MonotonicPass(raw)

\* plot_conformal_prediction_interval: clip the raw predictions, then the pass
PostProcessGlobal(raw) == MonotonicPass(MapClip0(raw))

\* Mutant: the per-unit pass compares with the raw predecessor.
PostProcessPerUnit_NotInPlace(raw) == MapClip0(MonotonicPass_NotInPlace(raw))

\* evaluate_conformal_metrics_per_unit: the pass on the raw predictions, then clip
PostProcessPerUnit(raw) == MapClip0(MonotonicPass(raw))

\* plot_conformal_multiple_units: the pass on the raw predictions, then clip
\* Mutant: the multi-unit plot leaves out its clamp.
PostProcessMultiUnit_NoClamp(raw) == MonotonicPass(raw)

PostProcessMultiUnit(raw) == MapClip0(MonotonicPass(raw))

(***************************************************************************)
(* Interval builder and coverage evaluation, as each operation inlines     *)
(* them.  preds are post-processed integer predictions, actual the true    *)
(* values, margin a float.                                                 *)
(***************************************************************************)
\* lower = np.clip(preds - margin, 0, None)
LowerBounds(preds, margin) ==
    [i \in 1..Len(preds) |-> FClip0(FSub(Fin(preds[i] * SCALE), margin))]

\* upper = preds
UpperBounds(preds) == [i \in 1..Len(preds) |-> Fin(preds[i] * SCALE)]

\* Mutant: the upper bound is not tested.
Covered_LowerOnly(actual, lower, upper) ==
    {i \in 1..Len(actual) : FGe(Fin(actual[i] * SCALE), lower[i])}

\* (actual >= lower) & (actual <= upper), element by element
Covered(actual, lower, upper) ==
    {i \in 1..Len(actual) : /\ FGe(Fin(actual[i] * SCALE), lower[i])
                            /\ FLe(Fin(actual[i] * SCALE), upper[i])}

\* np.mean(upper - lower)
AvgWidth(lower, upper) ==
    LET n == Len(upper)
    IN  IF \E i \in 1..n : lower[i].nan THEN NaN
        ELSE Fin(SumSeq([i \in 1..n |-> upper[i].v - lower[i].v]) \div n)

\* np.where(cond)[0][0], 0-based, or len - 1 when the condition never holds
FirstIndexOrLast(hits, n) ==
    IF hits = {} THEN n - 1
    ELSE (CHOOSE i \in hits : \A j \in hits : i <= j) - 1

\* Mutant: the signed difference, without abs.
compute_index_difference_Signed(lower_bounds, actual) ==
    FirstIndexOrLast({i \in 1..Len(lower_bounds) : FLe(lower_bounds[i], Fin(0))},
                     Len(lower_bounds))
    - FirstIndexOrLast({i \in 1..Len(actual) : actual[i] <= 0}, Len(actual))

\* compute_index_difference(lower_bounds, actual)
compute_index_difference(lower_bounds, actual) ==
    LET idx_conf == FirstIndexOrLast(
            {i \in 1..Len(lower_bounds) : FLe(lower_bounds[i], Fin(0))},
            Len(lower_bounds))
        idx_actual == FirstIndexOrLast(
            {i \in 1..Len(actual) : actual[i] <= 0}, Len(actual))
    IN  Abs(idx_conf - idx_actual)

\* One row of a coverage table: the interval built on preds with margin and
\* its coverage (covered steps out of n), average width and index difference
\* against the true values.
CoverageRow(preds, actual, margin) ==
    LET lower == LowerBounds(preds, margin)
        upper == UpperBounds(preds)
    IN  [margin |-> margin,
         lower |-> lower,
         upper |-> upper,
         covered |-> Cardinality(Covered(actual, lower, upper)),
         n |-> Len(actual),
         avg_width |-> AvgWidth(lower, upper),
         index_diff |-> compute_index_difference(lower, actual)]

(***************************************************************************)
(* plot_conformal_prediction_interval, from the calibration predictions    *)
(* to the results table.                                                   *)
(***************************************************************************)
\* Mutant: the Jackknife+ margin is the largest absolute residual.
jackknife_plus_margin_Max(absolute_residuals, alpha) ==
    Fin(Sort(absolute_residuals)[Len(absolute_residuals)] * SCALE)

\* jackknife_plus_margin of the global operation
jackknife_plus_margin(absolute_residuals, alpha) ==
    naive_quantile_margin(absolute_residuals, alpha)

\* cv_plus_margin of the global operation
cv_plus_margin(absolute_residuals, alpha) ==
    naive_quantile_margin(absolute_residuals, alpha)

GlobalMethods == {"Naive", "Weighted", "Bootstrap", "Jackknife+", "CV+", "ComplexMethod"}

GlobalMargins(y_train, raw_train, alpha, seed) ==
    LET preds_cal == ClipPreds(raw_train)
        absolute_residuals == AbsSeq(Residuals(y_train, preds_cal))
        m_naive == naive_quantile_margin(absolute_residuals, alpha)
        m_weighted == weighted_exponential_margin(absolute_residuals, alpha)
        m_bootstrap == bootstrap_margin_mean(absolute_residuals, alpha, seed, BootB)
        m_jackknife == jackknife_plus_margin(absolute_residuals, alpha)
        m_cv == cv_plus_margin(absolute_residuals, alpha)
        m_complex == Median3(m_naive, m_weighted, m_bootstrap)
    IN  [name \in GlobalMethods |->
            CASE name = "Naive" -> m_naive
              [] name = "Weighted" -> m_weighted
              [] name = "Bootstrap" -> m_bootstrap
              [] name = "Jackknife+" -> m_jackknife
              [] name = "CV+" -> m_cv
              [] name = "ComplexMethod" -> m_complex]

GlobalResults(y_train, raw_train, y_test, raw_test, alpha, seed) ==
    LET margin_dict == GlobalMargins(y_train, raw_train, alpha, seed)
        tpreds == PostProcessGlobal(raw_test)
    IN  [name \in GlobalMethods |-> CoverageRow(tpreds, y_test, margin_dict[name])]

(***************************************************************************)
(* plot_conformal_single_unit, from the margin definitions to conf_df.     *)
(***************************************************************************)
\* jackknife_plus_margin of the single-unit operation
jackknife_plus_margin_single(res, alpha) == parametric_margin(res, alpha)

\* cv_plus_margin of the single-unit operation
cv_plus_margin_single(res, alpha) == parametric_margin(res, alpha)

SingleMethods == {"ParamNormal", "Weighted", "Bootstrap", "Jackknife+", "CV+", "ComplexMethod"}

SingleMargins(y_cal, raw_cal, alpha, seed) ==
    LET preds_cal == ClipPreds(raw_cal)
        res == Residuals(y_cal, preds_cal)
        abs_res == AbsSeq(res)
        m_param == parametric_margin(res, alpha)
        m_weighted == weighted_exponential_margin(abs_res, alpha)
        m_bootstrap == bootstrap_margin_median(abs_res, alpha, seed, BootB)
        m_jackknife == jackknife_plus_margin_single(res, alpha)
        m_cv == cv_plus_margin_single(res, alpha)
        m_complex == Median3(m_param, m_weighted, m_bootstrap)
    IN  [name \in SingleMethods |->
            CASE name = "ParamNormal" -> m_param
              [] name = "Weighted" -> m_weighted
              [] name = "Bootstrap" -> m_bootstrap
              [] name = "Jackknife+" -> m_jackknife
              [] name = "CV+" -> m_cv
              [] name = "ComplexMethod" -> m_complex]

SingleResults(y_cal, raw_cal, alpha, seed) ==
    LET margin_dict == SingleMargins(y_cal, raw_cal, alpha, seed)
        preds_cal == ClipPreds(raw_cal)
    IN  [name \in SingleMethods |-> CoverageRow(preds_cal, y_cal, margin_dict[name])]

(***************************************************************************)
(* evaluate_conformal_metrics_per_unit, from the candidate margins to one  *)
(* unit's row.                                                             *)
(***************************************************************************)
\* margin_candidates, in insertion order
CandidateNames == <<"ParamNormal", "Weighted", "Bootstrap">>

margin_candidates(y_cal, raw_cal, alpha, seed) ==
    LET preds_cal == ClipPreds(raw_cal)
        res == Residuals(y_cal, preds_cal)
        abs_res == AbsSeq(res)
    IN  <<parametric_margin(res, alpha),
          weighted_exponential_margin(abs_res, alpha),
          bootstrap_margin_median(abs_res, alpha, seed, BootB)>>

\* candidate_coverages: covered calibration rows per candidate (the mean
\* divides each by the same len(y_cal))
candidate_coverages(y_cal, raw_cal, cands) ==
    LET preds_cal == ClipPreds(raw_cal)
    IN  [k \in 1..3 |->
            Cardinality(Covered(y_cal, LowerBounds(preds_cal, cands[k]),
                                UpperBounds(preds_cal)))]

\* Mutant: the first candidate is taken, whatever the coverages.
best_candidate_First(coverages) == 1

\* max(candidate_coverages, key=candidate_coverages.get): the first candidate
\* that no later one strictly exceeds
best_candidate(coverages) ==
    CHOOSE k \in 1..3 :
        /\ \A j \in 1..3 : coverages[j] <= coverages[k]
        /\ \A j \in 1..(k - 1) : coverages[j] < coverages[k]

\* best_margin for margin_method "complex" or "best"
SelectMargin(y_cal, raw_cal, alpha, seed, margin_method) ==
    LET cands == margin_candidates(y_cal, raw_cal, alpha, seed)
    IN  IF margin_method = "complex" THEN Median3(cands[1], cands[2], cands[3])
        ELSE cands[best_candidate(candidate_coverages(y_cal, raw_cal, cands))]

\* the row appended for one evaluation unit
PerUnitRow(y_true, raw_unit, best_margin) ==
    CoverageRow(PostProcessPerUnit(raw_unit), y_true, best_margin)

(***************************************************************************)
(* SpecPost: the post-processing step of each call site, applied to every  *)
(* raw prediction trajectory within the bounds.  The initial states hold   *)
(* the raw predictions the model returned; one step post-processes them.   *)
(***************************************************************************)
RawVals == -2..MaxRaw
RawSeqs == UNION {[1..n -> RawVals] : n \in 0..MaxLen}

pipeState == <<df, random_state, results_metrics, files,
               conformal_results_df, conformal_inference>>

InitPost ==
    /\ df = <<>>
    /\ random_state = 0
    /\ results_metrics = <<>>
    /\ files = {}
    /\ conformal_results_df = None
    /\ conformal_inference = None
    /\ \E raw \in RawSeqs : call = [op |-> "predict", raw |-> raw]

StepPostGlobal ==
    /\ call.op = "predict"
    /\ call' = [op |-> "post_global", raw |-> call.raw,
                mid |-> FirstStageGlobal(call.raw),
                out |-> PostProcessGlobal(call.raw)]
    /\ UNCHANGED pipeState

StepPostPerUnit ==
    /\ call.op = "predict"
    /\ call' = [op |-> "post_per_unit", raw |-> call.raw,
                mid |-> FirstStagePerUnit(call.raw),
                out |-> PostProcessPerUnit(call.raw)]
    /\ UNCHANGED pipeState

StepPostMultiUnit ==
    /\ call.op = "predict"
    /\ call' = [op |-> "post_multi_unit", raw |-> call.raw,
                mid |-> FirstStagePerUnit(call.raw),
                out |-> PostProcessMultiUnit(call.raw)]
    /\ UNCHANGED pipeState

NextPost == StepPostGlobal \/ StepPostPerUnit \/ StepPostMultiUnit

SpecPost == InitPost /\ [][NextPost]_vars

PostOps == {"post_global", "post_per_unit", "post_multi_unit"}

NonIncreasing(s) == \A i \in 2..Len(s) : s[i] <= s[i - 1]
NonNegative(s) == \A i \in 1..Len(s) : s[i] >= 0
HasSpike(s) == \E i \in 2..Len(s) : s[i] > s[i - 1]
HasNegative(s) == \E i \in 1..Len(s) : s[i] < 0

\* C1: the trajectory each call site has after its monotonic pass and clamp
\* is non-increasing and non-negative, and as long as the raw predictions.
C1_PostProcessedMonotoneNonNegative ==
    call.op \in PostOps =>
        /\ Len(call.out) = Len(call.raw)
        /\ NonIncreasing(call.out)
        /\ NonNegative(call.out)

\* C1 witness: a raw trajectory of full length with an interior spike and a
\* negative value has been post-processed.
C1_Witness ==
    /\ call.op = "post_global"
    /\ Len(call.raw) = MaxLen
    /\ HasSpike(call.raw)
    /\ HasNegative(call.raw)
    /\ call.out # call.raw

(***************************************************************************)
(* SpecCal: the calibration, interval and coverage computations of the     *)
(* three operations that compute margins, on every calibration set within  *)
(* the bounds.  The initial states hold what the operation has gathered    *)
(* before its first margin: the calibration rows (true value, raw          *)
(* prediction), the evaluation rows, alpha and the seed; one step runs an  *)
(* operation's computation on them.                                        *)
(***************************************************************************)
\* calibration rows <<true value, raw prediction>>: residuals 0, 3, -3 and 1
\* (the last from a negative raw prediction)
CalPairs == {<<0, 0>>, <<3, 0>>, <<0, 3>>, <<1, -1>>}
CalSets == UNION {[1..n -> CalPairs] : n \in 1..MaxCal}

\* alpha, in percent
Alphas == {5, 60}

Seeds == {42, 7}

\* Scenario B's raw trajectory with Scenario C's true values
ScenarioRaw == <<10, 12, 8, 5, 6, -1, 0>>
ScenarioTrue == <<11, 9, 7, 6, 4, 1, 0>>

\* evaluation sequences: true values y and raw predictions raw
EvalUnits ==
    { [y |-> ScenarioTrue, raw |-> ScenarioRaw],
      [y |-> <<2, 1, 0>>, raw |-> <<3, 1, -1>>],
      [y |-> <<3, 2>>, raw |-> <<2, 4>>],
      [y |-> <<1>>, raw |-> <<0>>],
      [y |-> <<4, 4, 4>>, raw |-> <<5, 6, 5>>] }

ColOf(rows, c) == [i \in 1..Len(rows) |-> rows[i][c]]

InitCal ==
    /\ df = <<>>
    /\ random_state \in Seeds
    /\ results_metrics = <<>>
    /\ files = {}
    /\ conformal_results_df = None
    /\ conformal_inference = None
    /\ \E cal \in CalSets, alpha \in Alphas, unit \in EvalUnits :
          call = [op |-> "calibrate",
                  y_cal |-> ColOf(cal, 1), raw_cal |-> ColOf(cal, 2),
                  alpha |-> alpha, y_eval |-> unit.y, raw_eval |-> unit.raw]

\* plot_conformal_prediction_interval, lines 489-555
StepGlobalReport ==
    /\ call.op = "calibrate"
    /\ call' = [call EXCEPT !.op = "global_report"] @@
               [margins |-> GlobalMargins(call.y_cal, call.raw_cal, call.alpha, random_state),
                table |-> GlobalResults(call.y_cal, call.raw_cal, call.y_eval,
                                        call.raw_eval, call.alpha, random_state)]
    /\ UNCHANGED pipeState

\* plot_conformal_single_unit, lines 658-747
StepSingleTable ==
    /\ call.op = "calibrate"
    /\ call' = [call EXCEPT !.op = "single_table"] @@
               [margins |-> SingleMargins(call.y_cal, call.raw_cal, call.alpha, random_state),
                table |-> SingleResults(call.y_cal, call.raw_cal, call.alpha, random_state)]
    /\ UNCHANGED pipeState

\* evaluate_conformal_metrics_per_unit, lines 817-929, for one evaluation unit
StepPerUnitRow ==
    /\ call.op = "calibrate"
    /\ \E margin_method \in {"complex", "best"} :
          LET cands == margin_candidates(call.y_cal, call.raw_cal, call.alpha, random_state)
              best_margin == SelectMargin(call.y_cal, call.raw_cal, call.alpha,
                                          random_state, margin_method)
          IN  call' = [call EXCEPT !.op = "per_unit_row"] @@
                      [margin_method |-> margin_method,
                       margins |-> [k \in {"ParamNormal", "Weighted", "Bootstrap"} |->
                                       CASE k = "ParamNormal" -> cands[1]
                                         [] k = "Weighted" -> cands[2]
                                         [] k = "Bootstrap" -> cands[3]],
                       table |-> [u \in {"unit"} |->
                                     PerUnitRow(call.y_eval, call.raw_eval, best_margin)]]
    /\ UNCHANGED pipeState

NextCal == StepGlobalReport \/ StepSingleTable \/ StepPerUnitRow

SpecCal == InitCal /\ [][NextCal]_vars

CalOps == {"global_report", "single_table", "per_unit_row"}

AllRows == {call.table[k] : k \in DOMAIN call.table}

\* C2: every interval an operation builds from a margin of its estimators
\* has lower[i] <= upper[i] at every step.
C2_LowerLeUpper ==
    call.op \in CalOps =>
        \A row \in AllRows : \A i \in 1..Len(row.lower) : FLe(row.lower[i], row.upper[i])

\* C3: every margin estimator returns a finite value >= 0 on a non-empty
\* residual set.
C3_MarginsFiniteNonNegative ==
    call.op \in CalOps =>
        \A name \in DOMAIN call.margins :
            ~call.margins[name].nan /\ call.margins[name].v >= 0

\* C5: every row of the global report and of the per-unit report has
\* coverage in [0,1], avg_width >= 0 and index_diff in 0..length.
C5_ReportRanges ==
    call.op \in {"global_report", "per_unit_row"} =>
        \A row \in AllRows :
            /\ row.n >= 1
            /\ row.covered \in 0..row.n
            /\ ~row.avg_width.nan /\ row.avg_width.v >= 0
            /\ row.index_diff \in 0..row.n

Scaled(s) == [i \in 1..Len(s) |-> Fin(s[i] * SCALE)]

\* the rows the last step built for Scenario C: margin 3 on the trajectory
\* [10,10,8,5,5,0,0] against the true values [11,9,7,6,4,1,0]
ScenarioRows ==
    IF call.op \in {"global_report", "per_unit_row"} /\ call.y_eval = ScenarioTrue
    THEN {row \in AllRows : /\ row.margin = Fin(3 * SCALE)
                            /\ row.upper = Scaled(<<10, 10, 8, 5, 5, 0, 0>>)}
    ELSE {}

\* C6 as amended: in Scenario C the interval is lower = [7,7,5,2,2,0,0],
\* upper = trajectory, and the coverage is 4/7 (steps 0, 3 and 5 are not
\* contained).
C6_ScenarioCoverage ==
    \A row \in ScenarioRows :
        /\ row.lower = Scaled(<<7, 7, 5, 2, 2, 0, 0>>)
        /\ row.n = 7
        /\ row.covered = 4

\* C6 as stated: in Scenario C the coverage is 6/7.
C6_AsStated ==
    \A row \in ScenarioRows :
        /\ row.lower = Scaled(<<7, 7, 5, 2, 2, 0, 0>>)
        /\ row.covered * 7 = 6 * row.n

\* C6 witness: the per-unit evaluator has built its row for Scenario C, with
\* margin 3 on the post-processed trajectory.
C6_Witness ==
    /\ call.op = "per_unit_row"
    /\ ScenarioRows # {}

(***************************************************************************)
(* The pipeline.                                                           *)
(*                                                                         *)
(* df is the sequence of units of self.df in ascending order of group_col  *)
(* (the constructor sorts it).  A unit is [id, rows, y, raw]: rows is the   *)
(* number of its rows in df, y the targets of its sliding windows          *)
(* (unit_target[sequence_length:]) and raw the predictions the reloaded    *)
(* model returns on those windows.  The model is opaque: its predictions   *)
(* are data.                                                               *)
(***************************************************************************)
\* windows create_sequences / _prepare_ml_data build for a unit
Windows(u) == IF u.rows > sequence_length THEN u.rows - sequence_length ELSE 0

RECURSIVE Repeat(_, _)
Repeat(x, k) == IF k = 0 THEN <<>> ELSE <<x>> \o Repeat(x, k - 1)

RECURSIVE GroupsOf(_)
\* _prepare_data: self.groups, one entry per window of each unit with
\* len(unit_features) > sequence_length
GroupsOf(d) ==
    IF d = <<>> THEN <<>>
    ELSE (IF Head(d).rows > sequence_length THEN Repeat(Head(d).id, Len(Head(d).y))
          ELSE <<>>) \o GroupsOf(Tail(d))

RECURSIVE MlGroupsOf(_)
\* _prepare_ml_data: self.ml_groups, one entry per i in
\* range(sequence_length, len(unit_features)) of each unit with
\* len(unit_features) >= sequence_length
MlGroupsOf(d) ==
    IF d = <<>> THEN <<>>
    ELSE (IF Head(d).rows >= sequence_length
          THEN Repeat(Head(d).id, Head(d).rows - sequence_length)
          ELSE <<>>) \o MlGroupsOf(Tail(d))

RECURSIVE SortedDescSeqOf(_)
\* Mutant: the identifiers come in descending order.
SortedDescSeqOf(S) ==
    IF S = {} THEN <<>>
    ELSE LET m == CHOOSE x \in S : \A y \in S : x >= y
         IN  <<m>> \o SortedDescSeqOf(S \ {m})

RECURSIVE SortedSeqOf(_)
SortedSeqOf(S) ==
    IF S = {} THEN <<>>
    ELSE LET m == CHOOSE x \in S : \A y \in S : x <= y
         IN  <<m>> \o SortedSeqOf(S \ {m})

\* np.unique(groups): the distinct values, ascending
Unique(arr) == SortedSeqOf({arr[i] : i \in 1..Len(arr)})

\* Mutant: the calibration share is rounded up.
n_train_units_Ceil(unique_units) == (8 * Len(unique_units) + 9) \div 10

\* int(0.8 * len(unique_units))
n_train_units(unique_units) == (8 * Len(unique_units)) \div 10

\* unique_units[:n_train_units]
train_units(unique_units) == SubSeq(unique_units, 1, n_train_units(unique_units))

\* unique_units[n_train_units:]
test_units(unique_units) ==
    SubSeq(unique_units, n_train_units(unique_units) + 1, Len(unique_units))

SeqToSet(q) == {q[i] : i \in 1..Len(q)}

RECURSIVE RowsY(_, _)
\* y_dl[np.isin(groups, units)]: the targets of the windows of the given units
RowsY(d, units) ==
    IF d = <<>> THEN <<>>
    ELSE (IF Head(d).id \in units THEN Head(d).y ELSE <<>>) \o RowsY(Tail(d), units)

RECURSIVE RowsRaw(_, _)
\* model_predict_fn(X[np.isin(groups, units)]): the raw predictions on them
RowsRaw(d, units) ==
    IF d = <<>> THEN <<>>
    ELSE (IF Head(d).id \in units THEN Head(d).raw ELSE <<>>) \o RowsRaw(Tail(d), units)

(***************************************************************************)
(* S-scores and the choice of the best model.                              *)
(***************************************************************************)
SFin(x) == [kind |-> "fin", v |-> x]
SInf == [kind |-> "inf", v |-> 0]
SNaN == [kind |-> "nan", v |-> 0]

\* a < b on Python floats
ScoreLess(a, b) ==
    /\ a.kind # "nan"
    /\ b.kind # "nan"
    /\ \/ a.kind = "fin" /\ b.kind = "inf"
       \/ a.kind = "fin" /\ b.kind = "fin" /\ a.v < b.v

\* Mutant: the first recorded model is kept, whatever the scores.
MinFrom_First(rm, i, best) == best

RECURSIVE MinFrom(_, _, _)
\* min(iterable, key=...): the first element is kept until a later one
\* compares strictly less
MinFrom(rm, i, best) ==
    IF i > Len(rm) THEN best
    ELSE MinFrom(rm, i + 1, IF ScoreLess(rm[i].s, rm[best].s) THEN i ELSE best)

\* best_model_name = min(self.results_metrics, key=S-score), rm non-empty
best_model(rm) == rm[MinFrom(rm, 2, 1)]

ModelNames == <<"LSTM", "BiLSTM", "NBEATS", "CNNGRU", "XGBoost">>

\* the names the reload dispatch of an operation builds a Keras model for
KerasDispatch(op) ==
    IF op = "plot_conformal_multiple_units"
    THEN {"LSTM", "BiLSTM", "NBEATS", "TCN"}
    ELSE {"LSTM", "BiLSTM", "NBEATS", "CNNGRU"}

\* Reloading the best model: "loaded", "raise_load" when the weight file is
\* missing, "raise_unbound" when no branch bound best_model.
Reload(op, name, present) ==
    IF name = "XGBoost" \/ name \in KerasDispatch(op)
    THEN IF name \in present THEN "loaded" ELSE "raise_load"
    ELSE "raise_unbound"

(***************************************************************************)
(* run_experiment: the five fixed-split runs, in their order.              *)
(***************************************************************************)
\* results_metrics[name] = metrics: a dict keeps a key's first position
DictSet(rm, name, s) ==
    IF \E i \in 1..Len(rm) : rm[i].name = name
    THEN [i \in 1..Len(rm) |-> IF rm[i].name = name THEN [name |-> name, s |-> s] ELSE rm[i]]
    ELSE Append(rm, [name |-> name, s |-> s])

\* Whether a fixed-split run trains: it records NaN metrics and saves nothing
\* when there are no windows or the split leaves a side empty.
CanTrain(groups_array) ==
    LET unique_units == Unique(groups_array)
    IN  /\ Len(groups_array) > 0
        /\ Len(train_units(unique_units)) > 0
        /\ Len(test_units(unique_units)) > 0

\* The S-scores the five training runs end with, one per model in the order
\* of ModelNames (compute_s_score overflows to inf): none finite, each model
\* the best in turn, and a tie for the lowest score.
ScoreVectors ==
    { <<SInf, SInf, SInf, SInf, SInf>>,
      <<SFin(1), SInf, SInf, SInf, SInf>>,
      <<SFin(2), SFin(1), SInf, SFin(1), SFin(2)>>,
      <<SInf, SFin(2), SFin(1), SInf, SInf>>,
      <<SInf, SInf, SInf, SFin(1), SFin(2)>>,
      <<SFin(2), SFin(2), SFin(2), SFin(2), SFin(1)>> }

RECURSIVE RunAll(_, _, _)
\* results_metrics after running models k..5 with the scores given
RunAll(rm, scores, k) ==
    IF k > Len(ModelNames) THEN rm
    ELSE LET name == ModelNames[k]
             groups_array == IF name = "XGBoost" THEN MlGroupsOf(df) ELSE GroupsOf(df)
             s == IF CanTrain(groups_array) THEN scores[k] ELSE SNaN
         IN  RunAll(DictSet(rm, name, s), scores, k + 1)

run_experiment ==
    \E scores \in ScoreVectors :
        /\ results_metrics' = RunAll(results_metrics, scores, 1)
        /\ files' = files \cup
                {ModelNames[k] : k \in {j \in 1..Len(ModelNames) :
                    CanTrain(IF ModelNames[j] = "XGBoost" THEN MlGroupsOf(df) ELSE GroupsOf(df))}}
        /\ call' = [op |-> "run_experiment"]
        /\ UNCHANGED <<df, random_state, conformal_results_df, conformal_inference>>

(***************************************************************************)
(* plot_conformal_prediction_interval(alpha).                              *)
(***************************************************************************)
\* What a call does in the current state: how it ends, whether it reloaded a
\* model and computed margins, the split it made and the table it returns.
GlobalCall(alpha) ==
    LET op == "plot_conformal_prediction_interval"
        base == [op |-> op, alpha |-> alpha, outcome |-> "no_results", ret |-> None,
                 loaded |-> {}, margins_computed |-> FALSE,
                 train_units |-> <<>>, test_units |-> <<>>, has_split |-> FALSE]
    IN  IF results_metrics = <<>> THEN base
        ELSE LET best == best_model(results_metrics)
                 how == Reload(op, best.name, files)
                 unique_units == Unique(GroupsOf(df))
                 tr == train_units(unique_units)
                 te == test_units(unique_units)
             IN  IF best.s.kind = "inf" THEN [base EXCEPT !.outcome = "no_valid_model"]
                 ELSE IF how # "loaded" THEN [base EXCEPT !.outcome = how]
                 ELSE IF Len(tr) = 0 \/ Len(te) = 0
                      THEN [base EXCEPT !.outcome = "not_enough_units", !.loaded = {best.name},
                                        !.train_units = tr, !.test_units = te,
                                        !.has_split = TRUE]
                 ELSE IF Len(RowsY(df, SeqToSet(tr))) = 0 \/ Len(RowsY(df, SeqToSet(te))) = 0
                      THEN [base EXCEPT !.outcome = "no_data", !.loaded = {best.name},
                                        !.train_units = tr, !.test_units = te,
                                        !.has_split = TRUE]
                 ELSE [base EXCEPT !.outcome = "ok", !.loaded = {best.name},
                                   !.train_units = tr, !.test_units = te,
                                   !.has_split = TRUE,
                                   !.margins_computed = TRUE,
                                   !.ret = GlobalResults(RowsY(df, SeqToSet(tr)),
                                                         RowsRaw(df, SeqToSet(tr)),
                                                         RowsY(df, SeqToSet(te)),
                                                         RowsRaw(df, SeqToSet(te)),
                                                         alpha, random_state)]

plot_conformal_prediction_interval ==
    \E alpha \in Alphas :
        LET r == GlobalCall(alpha)
        IN  /\ call' = r
            /\ conformal_results_df' = IF r.outcome = "ok" THEN r.ret ELSE conformal_results_df
            /\ UNCHANGED <<df, random_state, results_metrics, files, conformal_inference>>

(***************************************************************************)
(* plot_conformal_single_unit(unit_id, alpha): the function body ends with *)
(* the calibration coverage table (line 747): no method is chosen and no    *)
(* interval is built for the unit, in any call.                            *)
(***************************************************************************)
SingleCall(unit_id, alpha) ==
    LET op == "plot_conformal_single_unit"
        base == [op |-> op, alpha |-> alpha, outcome |-> "no_results", ret |-> None,
                 loaded |-> {}, margins_computed |-> FALSE,
                 train_units |-> <<>>, test_units |-> <<>>, has_split |-> FALSE,
                 unit_id |-> unit_id, table |-> None,
                 chosen |-> None, interval |-> None]
    IN  IF results_metrics = <<>> THEN base
        ELSE LET best == best_model(results_metrics)
                 how == Reload(op, best.name, files)
                 tr == train_units(Unique(GroupsOf(df)))
             IN  IF best.s.kind = "inf" THEN [base EXCEPT !.outcome = "no_valid_model"]
                 ELSE IF how # "loaded" THEN [base EXCEPT !.outcome = how]
                 ELSE IF Len(tr) = 0
                      THEN [base EXCEPT !.outcome = "not_enough_units", !.loaded = {best.name},
                                        !.train_units = tr, !.has_split = TRUE]
                 ELSE IF Len(RowsY(df, SeqToSet(tr))) = 0
                      THEN [base EXCEPT !.outcome = "no_data", !.loaded = {best.name},
                                        !.train_units = tr, !.has_split = TRUE]
                 ELSE [base EXCEPT !.outcome = "ok", !.loaded = {best.name},
                                   !.train_units = tr, !.has_split = TRUE,
                                   !.margins_computed = TRUE,
                                   !.table = SingleResults(RowsY(df, SeqToSet(tr)),
                                                           RowsRaw(df, SeqToSet(tr)),
                                                           alpha, random_state)]

\* the unit identifiers a caller passes: with windows, too short, absent
UnitIdArgs == {1, 3, 7}

plot_conformal_single_unit ==
    \E unit_id \in UnitIdArgs, alpha \in Alphas :
        /\ call' = SingleCall(unit_id, alpha)
        /\ UNCHANGED <<df, random_state, results_metrics, files,
                       conformal_results_df, conformal_inference>>

(***************************************************************************)
(* evaluate_conformal_metrics_per_unit(alpha, margin_method).              *)
(***************************************************************************)
\* self.df[self.df[group_col] == unit]: the unit's record, no rows when absent
UnitOf(unit) ==
    IF \E i \in 1..Len(df) : df[i].id = unit
    THEN df[CHOOSE i \in 1..Len(df) : df[i].id = unit]
    ELSE [id |-> unit, rows |-> 0, y |-> <<>>, raw |-> <<>>]

\* Mutant: no unit is skipped.
Skipped_Never(unit) == FALSE

\* a unit the per-unit loops skip: fewer rows than sequence_length, or no window
Skipped(unit) ==
    \/ UnitOf(unit).rows < sequence_length
    \/ UnitOf(unit).rows - sequence_length = 0

RECURSIVE PerUnitRows(_, _, _)
\* the loop over test_units, from position k on
PerUnitRows(units, k, best_margin) ==
    IF k > Len(units) THEN <<>>
    ELSE (IF Skipped(units[k]) THEN <<>>
          ELSE <<[unit_id |-> units[k],
                  row |-> PerUnitRow(UnitOf(units[k]).y, UnitOf(units[k]).raw,
                                     best_margin)]>>)
         \o PerUnitRows(units, k + 1, best_margin)

MarginMethods == {"complex", "best", "median"}

PerUnitCall(alpha, margin_method) ==
    LET op == "evaluate_conformal_metrics_per_unit"
        base == [op |-> op, alpha |-> alpha, outcome |-> "raise_value", ret |-> None,
                 loaded |-> {}, margins_computed |-> FALSE,
                 train_units |-> <<>>, test_units |-> <<>>, has_split |-> FALSE,
                 margin_method |-> margin_method]
    IN  IF results_metrics = <<>> THEN base
        ELSE LET best == best_model(results_metrics)
                 how == Reload(op, best.name, files)
                 groups_array == IF best.name = "XGBoost" THEN MlGroupsOf(df)
                                 ELSE GroupsOf(df)
                 unique_units == Unique(groups_array)
                 tr == train_units(unique_units)
                 te == test_units(unique_units)
                 y_cal == RowsY(df, SeqToSet(tr))
                 raw_cal == RowsRaw(df, SeqToSet(tr))
             IN  IF best.s.kind = "inf" THEN [base EXCEPT !.outcome = "no_valid_model"]
                 ELSE IF how # "loaded" THEN [base EXCEPT !.outcome = how]
                 ELSE IF Len(tr) = 0 \/ Len(te) = 0
                      THEN [base EXCEPT !.outcome = "not_enough_units", !.loaded = {best.name},
                                        !.train_units = tr, !.test_units = te,
                                        !.has_split = TRUE]
                 ELSE IF margin_method \notin {"complex", "best"}
                      THEN [base EXCEPT !.outcome = "invalid_method", !.loaded = {best.name},
                                        !.train_units = tr, !.test_units = te,
                                        !.has_split = TRUE, !.margins_computed = TRUE]
                 ELSE [base EXCEPT !.outcome = "ok", !.loaded = {best.name},
                                   !.train_units = tr, !.test_units = te,
                                   !.has_split = TRUE, !.margins_computed = TRUE,
                                   !.ret = [rows |-> PerUnitRows(te, 1,
                                                SelectMargin(y_cal, raw_cal, alpha,
                                                    random_state, margin_method))]]

evaluate_conformal_metrics_per_unit ==
    \E alpha \in Alphas, margin_method \in MarginMethods :
        /\ call' = PerUnitCall(alpha, margin_method)
        /\ UNCHANGED <<df, random_state, results_metrics, files,
                       conformal_results_df, conformal_inference>>

(***************************************************************************)
(* plot_conformal_multiple_units(unit_ids, alpha, gap).                    *)
(***************************************************************************)
\* Mutant: the whole trajectory is rendered.
seg_length_Full(preds) == Len(preds)

\* seg_length: up to and including the first prediction <= 0, else all of them
seg_length(preds) ==
    IF \E i \in 1..Len(preds) : preds[i] <= 0
    THEN CHOOSE i \in 1..Len(preds) :
            /\ preds[i] <= 0
            /\ \A j \in 1..(i - 1) : preds[j] > 0
    ELSE Len(preds)

RECURSIVE Segments(_, _, _, _, _)
\* the loop over unit_ids from position k on, current_offset as it stands
Segments(unit_ids, k, current_offset, gap, best_margin) ==
    IF k > Len(unit_ids) THEN <<>>
    ELSE IF Skipped(unit_ids[k])
         THEN Segments(unit_ids, k + 1, current_offset, gap, best_margin)
    ELSE LET preds == PostProcessMultiUnit(UnitOf(unit_ids[k]).raw)
             n == seg_length(preds)
         IN  <<[unit_id |-> unit_ids[k], offset |-> current_offset, seg_length |-> n,
                preds |-> SubSeq(preds, 1, n),
                lower |-> LowerBounds(SubSeq(preds, 1, n), best_margin)]>>
             \o Segments(unit_ids, k + 1, current_offset + n + gap, gap, best_margin)

MultiCall(unit_ids, alpha, gap) ==
    LET op == "plot_conformal_multiple_units"
        base == [op |-> op, alpha |-> alpha, outcome |-> "no_results", ret |-> None,
                 loaded |-> {}, margins_computed |-> FALSE,
                 train_units |-> <<>>, test_units |-> <<>>, has_split |-> FALSE,
                 unit_ids |-> unit_ids, gap |-> gap, stored_before |-> conformal_inference,
                 conf_df |-> None, best_margin |-> None, segments |-> <<>>]
    IN  IF results_metrics = <<>> THEN base
        ELSE LET best == best_model(results_metrics)
                 how == Reload(op, best.name, files)
                 inner == GlobalCall(alpha)
             IN  IF best.s.kind = "inf" THEN [base EXCEPT !.outcome = "no_valid_model"]
                 ELSE IF how # "loaded" THEN [base EXCEPT !.outcome = how]
                 ELSE IF conformal_inference # None
                      THEN [base EXCEPT !.outcome = "ok", !.loaded = {best.name},
                                !.best_margin = conformal_inference.best_margin,
                                !.segments = Segments(unit_ids, 1, 0, gap,
                                                 conformal_inference.best_margin)]
                 ELSE IF inner.ret = None
                      THEN [base EXCEPT !.outcome = "raise_attribute", !.loaded = {best.name},
                                !.train_units = inner.train_units,
                                !.test_units = inner.test_units,
                                !.has_split = inner.has_split,
                                !.margins_computed = inner.margins_computed]
                 ELSE [base EXCEPT !.outcome = "ok", !.loaded = {best.name},
                           !.train_units = inner.train_units,
                           !.test_units = inner.test_units,
                           !.has_split = inner.has_split,
                           !.margins_computed = inner.margins_computed,
                           !.conf_df = inner.ret,
                           !.best_margin = inner.ret["ComplexMethod"].margin,
                           !.segments = Segments(unit_ids, 1, 0, gap,
                                                 inner.ret["ComplexMethod"].margin)]

UnitIdLists == {<<7>>, <<9, 3, 7>>, <<8, 1, 6>>}
Gaps == {0, 2}

plot_conformal_multiple_units ==
    \E unit_ids \in UnitIdLists, alpha \in Alphas, gap \in Gaps :
        LET r == MultiCall(unit_ids, alpha, gap)
        IN  /\ call' = r
            /\ conformal_results_df' =
                   IF r.conf_df # None THEN r.conf_df ELSE conformal_results_df
            /\ conformal_inference' =
                   IF r.conf_df # None
                   THEN [best_method |-> "ComplexMethod", best_margin |-> r.best_margin]
                   ELSE conformal_inference
            /\ UNCHANGED <<df, random_state, results_metrics, files>>

(***************************************************************************)
(* The pipeline specification: a constructed pipeline on one of the data   *)
(* sets, then any sequence of run_experiment and the conformal operations. *)
(***************************************************************************)
\* a unit with sequence_length + extra rows
Unit(id, extra, y, raw) ==
    [id |-> id, rows |-> sequence_length + extra, y |-> y, raw |-> raw]

DataSets ==
    { <<>>,
      <<Unit(1, 1, <<3>>, <<0>>)>>,
      <<Unit(1, 1, <<3>>, <<0>>), Unit(2, 3, <<2, 1, 0>>, <<3, 1, -1>>)>>,
      <<Unit(1, 1, <<3>>, <<2>>), Unit(2, 1, <<1>>, <<3>>), Unit(3, 0, <<>>, <<>>),
        Unit(4, 1, <<2>>, <<3>>), Unit(5, 1, <<0>>, <<1>>),
        Unit(7, 3, <<2, 1, 0>>, <<3, 0, 4>>), Unit(8, -1, <<>>, <<>>),
        Unit(9, 2, <<3, 2>>, <<2, 1>>)>> }

\* weight files the target folder may hold before any run
InitialFiles == {{}, SeqToSet(ModelNames)}

Init ==
    /\ df \in DataSets
    /\ random_state \in Seeds
    /\ results_metrics = <<>>
    /\ files \in InitialFiles
    /\ conformal_results_df = None
    /\ conformal_inference = None
    /\ call = [op |-> "__init__"]

Next ==
    \/ run_experiment
    \/ plot_conformal_prediction_interval
    \/ plot_conformal_single_unit
    \/ evaluate_conformal_metrics_per_unit
    \/ plot_conformal_multiple_units

Spec == Init /\ [][Next]_vars

(***************************************************************************)
(* Properties of the pipeline.                                             *)
(***************************************************************************)
ConformalOps == {"plot_conformal_prediction_interval", "plot_conformal_single_unit",
                 "evaluate_conformal_metrics_per_unit", "plot_conformal_multiple_units"}

\* results_metrics holds models and none of them has a finite S-score
AllNonFinite(rm) == rm # <<>> /\ \A i \in 1..Len(rm) : rm[i].s.kind # "fin"

\* C4: when every recorded S-score is inf or NaN, a conformal operation
\* signals that there is no valid best model, reloads no model and computes
\* no margin.
C4_NoValidModelSignalled ==
    (call.op \in ConformalOps /\ AllNonFinite(results_metrics)) =>
        /\ call.outcome = "no_valid_model"
        /\ call.loaded = {}
        /\ ~call.margins_computed

\* C7: a call of plot_conformal_single_unit that gets past its guards leaves
\* in conformal_inference a method of its table with that method's margin,
\* and returns the table.
C7_SingleUnitStoresSelection ==
    (call.op = "plot_conformal_single_unit" /\ call.outcome = "ok") =>
        /\ call.ret # None
        /\ call.ret = call.table
        /\ conformal_inference # None
        /\ conformal_inference.best_method \in SingleMethods
        /\ conformal_inference.best_margin =
               call.table[conformal_inference.best_method].margin

\* C8: a call of plot_conformal_multiple_units with a valid best model
\* completes; it uses the stored margin when a selection was stored, else the
\* ComplexMethod margin of the global calibration it ran, which it stores.
C8_MultiUnitUsesStoredOrGlobal ==
    (/\ call.op = "plot_conformal_multiple_units"
     /\ results_metrics # <<>>
     /\ best_model(results_metrics).s.kind = "fin") =>
        /\ call.outcome = "ok"
        /\ conformal_inference # None
        /\ IF call.stored_before # None
           THEN /\ call.best_margin = call.stored_before.best_margin
                /\ conformal_inference = call.stored_before
           ELSE /\ call.best_margin = call.conf_df["ComplexMethod"].margin
                /\ conformal_inference =
                       [best_method |-> "ComplexMethod", best_margin |-> call.best_margin]

\* the identifiers of the units that have at least one window
WindowedIds == {df[i].id : i \in {j \in 1..Len(df) : df[j].rows > sequence_length}}

\* C9: the calibration group is the first floor(0.8 * n) of the n sorted
\* identifiers and the evaluation group the rest, in every operation that
\* splits: disjoint, covering, calibration identifiers before evaluation ones.
C9_SplitBySortedIds ==
    (call.op \in ConformalOps /\ call.has_split) =>
        LET n == Cardinality(WindowedIds)
            tr == SeqToSet(call.train_units)
            te == SeqToSet(call.test_units)
        IN  /\ Len(call.train_units) = (8 * n) \div 10
            /\ Cardinality(tr) = Len(call.train_units)
            /\ tr \subseteq WindowedIds
            /\ \A a \in tr : \A b \in WindowedIds \ tr : a < b
            /\ \A i \in 2..Len(call.train_units) :
                   call.train_units[i - 1] < call.train_units[i]
            /\ call.op # "plot_conformal_single_unit" =>
                   /\ te = WindowedIds \ tr
                   /\ Cardinality(te) = Len(call.test_units)
                   /\ tr \cap te = {}
                   /\ \A i \in 2..Len(call.test_units) :
                          call.test_units[i - 1] < call.test_units[i]

\* C9 witness: the per-unit evaluator split six identifiers with a gap in
\* their numbering into the first four and the last two.
C9_Witness ==
    /\ call.op = "evaluate_conformal_metrics_per_unit"
    /\ call.has_split
    /\ Cardinality(WindowedIds) = 6
    /\ call.train_units = <<1, 2, 4, 5>>
    /\ call.test_units = <<7, 9>>

\* the 80/20 split of the windowed identifiers leaves a group empty
SplitLeavesEmptyGroup ==
    LET n == Cardinality(WindowedIds)
    IN  (8 * n) \div 10 = 0 \/ n - ((8 * n) \div 10) = 0

\* C10: on data whose split leaves a group empty, the global report, the
\* single-unit call and the multi-unit call end without a result, compute no
\* margin and store nothing.
C10_FailFastOnEmptyGroup ==
    (/\ call.op \in {"plot_conformal_prediction_interval", "plot_conformal_single_unit",
                     "plot_conformal_multiple_units"}
     /\ SplitLeavesEmptyGroup) =>
        /\ call.outcome # "ok"
        /\ ~call.margins_computed
        /\ conformal_results_df = None
        /\ conformal_inference = None

\* C10 witness: a multi-unit call reloaded a model, reached the split through
\* the global calibration, found the calibration group empty and raised.
C10_Witness ==
    /\ call.op = "plot_conformal_multiple_units"
    /\ call.has_split
    /\ call.train_units = <<>>
    /\ call.test_units # <<>>
    /\ call.loaded # {}
    /\ call.outcome = "raise_attribute"

\* whether df holds a unit of this identifier with at least one window
HasWindow(unit) == unit \in WindowedIds

RECURSIVE WithWindows(_)
\* the identifiers of a list that have a window, in the order of the list
WithWindows(units) ==
    IF units = <<>> THEN <<>>
    ELSE (IF HasWindow(Head(units)) THEN <<Head(units)>> ELSE <<>>)
         \o WithWindows(Tail(units))

\* C11: a completed per-unit evaluation or multi-unit call holds exactly one
\* row (one segment) per unit that yields a window, in the order the units
\* were given; units too short for a window are left out and abort nothing.
C11_ShortUnitsSkipped ==
    /\ (call.op = "evaluate_conformal_metrics_per_unit" /\ call.outcome = "ok") =>
           [i \in 1..Len(call.ret.rows) |-> call.ret.rows[i].unit_id]
               = WithWindows(call.test_units)
    /\ (call.op = "plot_conformal_multiple_units" /\ call.outcome = "ok") =>
           [i \in 1..Len(call.segments) |-> call.segments[i].unit_id]
               = WithWindows(call.unit_ids)

\* C11 witness: a multi-unit call on units 9, 3, 7, where unit 3 has no
\* window, rendered a segment for 9 and then one for 7.
C11_Witness ==
    /\ call.op = "plot_conformal_multiple_units"
    /\ call.outcome = "ok"
    /\ call.unit_ids = <<9, 3, 7>>
    /\ ~HasWindow(3)
    /\ Len(call.segments) = 2
    /\ call.segments[1].unit_id = 9
    /\ call.segments[2].unit_id = 7

\* C12: a per-unit evaluation called with a margin_method other than
\* 'complex' and 'best' ends with the invalid-configuration outcome before
\* any model is reloaded or any margin computed, and returns no table.
C12_InvalidMethodImmediate ==
    (/\ call.op = "evaluate_conformal_metrics_per_unit"
     /\ call.margin_method \notin {"complex", "best"}) =>
        /\ call.outcome = "invalid_method"
        /\ call.loaded = {}
        /\ ~call.margins_computed
        /\ call.ret = None

\* The calibration of each operation run afresh in the current state: on the
\* calibration group of df, with random_state.
FreshCal == SeqToSet(train_units(Unique(GroupsOf(df))))
FreshEval == SeqToSet(test_units(Unique(GroupsOf(df))))
FreshGlobalTable(alpha) ==
    GlobalResults(RowsY(df, FreshCal), RowsRaw(df, FreshCal),
                  RowsY(df, FreshEval), RowsRaw(df, FreshEval), alpha, random_state)
FreshSingleTable(alpha) ==
    SingleResults(RowsY(df, FreshCal), RowsRaw(df, FreshCal), alpha, random_state)
FreshSelectedMargin(alpha, margin_method) ==
    SelectMargin(RowsY(df, FreshCal), RowsRaw(df, FreshCal), alpha, random_state,
                 margin_method)

CalCovered(margin) ==
    Cardinality(Covered(call.y_cal,
                        LowerBounds(ClipPreds(call.raw_cal), margin),
                        UpperBounds(ClipPreds(call.raw_cal))))

\* C14: with margin_method 'best' the margin of the unit row is the margin of
\* a candidate among ParamNormal, Weighted and Bootstrap that no other
\* candidate exceeds in coverage of the calibration set.
C14_BestHasMaxCoverage ==
    (call.op = "per_unit_row" /\ call.margin_method = "best") =>
        \E name \in DOMAIN call.margins :
            /\ call.table["unit"].margin = call.margins[name]
            /\ \A other \in DOMAIN call.margins :
                   CalCovered(call.margins[other]) <= CalCovered(call.margins[name])

\* C14 witness: 'best' passed over ParamNormal for a candidate that covers
\* more calibration rows.
C14_Witness ==
    /\ call.op = "per_unit_row"
    /\ call.margin_method = "best"
    /\ call.table["unit"].margin # call.margins["ParamNormal"]
    /\ CalCovered(call.margins["ParamNormal"]) < CalCovered(call.table["unit"].margin)

\* m is the median of three floats: the middle one in order, NaN as soon as
\* one of them is NaN (np.median)
IsMedianOf(m, a, b, c) ==
    IF a.nan \/ b.nan \/ c.nan THEN m.nan
    ELSE /\ ~m.nan
         /\ m \in {a, b, c}
         /\ Cardinality({k \in 1..3 : <<a, b, c>>[k].v <= m.v}) >= 2
         /\ Cardinality({k \in 1..3 : <<a, b, c>>[k].v >= m.v}) >= 2

\* C15: with margin_method 'complex' the margin of the unit row is the median
\* of the ParamNormal, Weighted and Bootstrap candidates; the ComplexMethod
\* margin of the global report is the median of Naive, Weighted and Bootstrap
\* and that of the single-unit table the median of ParamNormal, Weighted and
\* Bootstrap.
C15_ComplexIsMedian ==
    /\ (call.op = "per_unit_row" /\ call.margin_method = "complex") =>
           IsMedianOf(call.table["unit"].margin, call.margins["ParamNormal"],
                      call.margins["Weighted"], call.margins["Bootstrap"])
    /\ call.op = "global_report" =>
           IsMedianOf(call.margins["ComplexMethod"], call.margins["Naive"],
                      call.margins["Weighted"], call.margins["Bootstrap"])
    /\ call.op = "single_table" =>
           IsMedianOf(call.margins["ComplexMethod"], call.margins["ParamNormal"],
                      call.margins["Weighted"], call.margins["Bootstrap"])

\* C15 witness: a 'complex' unit row whose three candidates are finite and
\* pairwise different.
C15_Witness ==
    /\ call.op = "per_unit_row"
    /\ call.margin_method = "complex"
    /\ \A name \in DOMAIN call.margins : ~call.margins[name].nan
    /\ Cardinality({call.margins[name] : name \in DOMAIN call.margins}) = 3

C17_PostProcessIdempotent ==
    /\ call.op = "post_per_unit" => PostProcessPerUnit(call.out) = call.out
    /\ call.op = "post_multi_unit" => PostProcessMultiUnit(call.out) = call.out
    /\ call.op = "post_global" => PostProcessGlobal(call.out) = call.out

\* C17 witness: the per-unit post-processor changed a full-length trajectory
\* that rises twice and has a negative value.
C17_Witness ==
    /\ call.op = "post_per_unit"
    /\ Len(call.raw) = MaxLen
    /\ call.raw[1] < call.raw[2]
    /\ call.raw[2] > call.raw[3]
    /\ call.raw[1] < call.raw[3]
    /\ HasNegative(call.raw)
    /\ call.out # call.raw

RECURSIVE EachUnitPostProcessed(_)
\* the post-processed trajectories of the units of a list, each from its own
\* raw predictions, one after the other
EachUnitPostProcessed(units) ==
    IF units = <<>> THEN <<>>
    ELSE PostProcessPerUnit(UnitOf(Head(units)).raw) \o EachUnitPostProcessed(Tail(units))

\* C19: the trajectory of every unit is post-processed from that unit's raw
\* predictions alone: in the global report the evaluated predictions are the
\* evaluation units' own post-processed trajectories one after the other, and
\* each row of the per-unit report is built on its unit's own trajectory.
C19_PerUnitIndependence ==
    /\ (call.op = "plot_conformal_prediction_interval" /\ call.outcome = "ok") =>
           call.ret["Naive"].upper = Scaled(EachUnitPostProcessed(call.test_units))
    /\ (call.op = "evaluate_conformal_metrics_per_unit" /\ call.outcome = "ok") =>
           \A i \in 1..Len(call.ret.rows) :
               call.ret.rows[i].row.upper =
                   Scaled(PostProcessPerUnit(UnitOf(call.ret.rows[i].unit_id).raw))

\* the absolute residuals of the last calibration, in the order of its rows
CalAbsRes == AbsSeq(Residuals(call.y_cal, ClipPreds(call.raw_cal)))

\* C20: the weighted-exponential margin weighs each residual by its rank in
\* ascending order, so it is the margin of the same residuals given in
\* ascending order, where position and rank agree, and the same for every
\* order of the calibration rows.
C20_WeightedByRank ==
    call.op \in CalOps =>
        call.margins["Weighted"] = weighted_exponential_margin(Sort(CalAbsRes), call.alpha)

\* The selection rule of the single-unit path on a candidate table: the
\* methods of minimum average width among those whose calibration coverage
\* is >= 1 - alpha, or the methods of coverage closest to 1 - alpha when none
\* meets it.
RuleChoices(table, alpha) ==
    LET gap(m) == Abs(table[m].covered * 100 - (100 - alpha) * table[m].n)
        valid == {m \in DOMAIN table : table[m].covered * 100 >= (100 - alpha) * table[m].n}
    IN  IF valid # {}
        THEN {m \in valid : \A o \in valid : FLe(table[m].avg_width, table[o].avg_width)}
        ELSE {m \in DOMAIN table : \A o \in DOMAIN table : gap(m) <= gap(o)}

\* C21: a single-unit call that gets past its guards chooses a method by the
\* rule (minimum width among the methods meeting the target, else closest
\* coverage) and builds the unit's interval with the chosen method's margin.
C21_SingleUnitSelection ==
    (call.op = "plot_conformal_single_unit" /\ call.outcome = "ok") =>
        /\ call.chosen # None
        /\ call.chosen.method \in RuleChoices(call.table, call.alpha)
        /\ call.chosen.margin = call.table[call.chosen.method].margin
        /\ call.interval # None
        /\ call.interval.margin = call.chosen.margin

\* k is the 0-based first index of hits, or the last index n - 1 when there
\* is no hit
IsFirstOrLastIndex(k, hits, n) ==
    IF hits = {} THEN k = n - 1
    ELSE (k + 1) \in hits /\ \A j \in hits : k + 1 <= j

\* the true values the rows of the last report are evaluated against
RowActual == IF call.op = "single_table" THEN call.y_cal ELSE call.y_eval

\* C22: in every row of every report, index_diff is abs(idx_conf -
\* idx_actual), idx_conf the first index whose lower bound is <= 0 and
\* idx_actual the first index whose true value is <= 0, each the last index
\* when there is none; it is 0 when neither ever reaches 0.
C22_IndexDiff ==
    call.op \in CalOps =>
        \A row \in AllRows :
            LET n == Len(row.lower)
                conf == {i \in 1..n : ~row.lower[i].nan /\ row.lower[i].v <= 0}
                actual == {i \in 1..n : RowActual[i] <= 0}
            IN  /\ \E kc \in 0..(n - 1), ka \in 0..(n - 1) :
                       /\ IsFirstOrLastIndex(kc, conf, n)
                       /\ IsFirstOrLastIndex(ka, actual, n)
                       /\ row.index_diff = Abs(kc - ka)
                /\ (conf = {} /\ actual = {}) => row.index_diff = 0

\* C22 witness: a per-unit row whose lower bound is 0 from the first step on
\* while the true value reaches 0 only later.
C22_Witness ==
    /\ call.op = "per_unit_row"
    /\ Len(call.y_eval) >= 2
    /\ call.y_eval[1] > 0
    /\ \E i \in 2..Len(call.y_eval) : call.y_eval[i] <= 0
    /\ call.table["unit"].lower[1] = Fin(0)
    /\ call.table["unit"].index_diff >= 1

\* C23: the Jackknife+ and CV+ rows of the global report are the Naive row,
\* and those of the single-unit table the ParamNormal row: same margin,
\* interval, coverage, average width and index difference.
C23_PlaceholdersDelegate ==
    /\ call.op = "global_report" =>
           /\ call.margins["Jackknife+"] = call.margins["Naive"]
           /\ call.margins["CV+"] = call.margins["Naive"]
           /\ call.table["Jackknife+"] = call.table["Naive"]
           /\ call.table["CV+"] = call.table["Naive"]
    /\ call.op = "single_table" =>
           /\ call.margins["Jackknife+"] = call.margins["ParamNormal"]
           /\ call.margins["CV+"] = call.margins["ParamNormal"]
           /\ call.table["Jackknife+"] = call.table["ParamNormal"]
           /\ call.table["CV+"] = call.table["ParamNormal"]

\* C23 witness: a global report whose Naive margin is neither the Weighted
\* nor the Bootstrap margin nor the largest residual.
C23_Witness ==
    /\ call.op = "global_report"
    /\ call.margins["Naive"] # call.margins["Weighted"]
    /\ call.margins["Naive"] # call.margins["Bootstrap"]
    /\ call.margins["Naive"] # Fin(Sort(CalAbsRes)[Len(CalAbsRes)] * SCALE)

\* C24: the segments of a completed multi-unit call lie one after the other
\* on the shared index: the first starts at 0, each next one at the end of
\* the one before plus gap, and each is as long as its unit's post-processed
\* trajectory up to and including its first value <= 0 (the whole of it when
\* there is none), so no two segments overlap and skipped units take no room.
C24_SegmentOffsets ==
    (call.op = "plot_conformal_multiple_units" /\ call.outcome = "ok") =>
        LET segs == call.segments
        IN  /\ segs # <<>> => segs[1].offset = 0
            /\ \A i \in 1..Len(segs) :
                   LET preds == PostProcessMultiUnit(UnitOf(segs[i].unit_id).raw)
                       n == segs[i].seg_length
                   IN  /\ n \in 1..Len(preds)
                       /\ \A j \in 1..(n - 1) : preds[j] > 0
                       /\ preds[n] <= 0 \/ n = Len(preds)
                       /\ segs[i].preds = SubSeq(preds, 1, n)
            /\ \A i \in 1..(Len(segs) - 1) :
                   /\ segs[i + 1].offset = segs[i].offset + segs[i].seg_length + call.gap
                   /\ segs[i + 1].offset >= segs[i].offset + segs[i].seg_length

\* C24 witness: with gap 2, unit 9 was rendered whole at 0..1, unit 3 was
\* skipped, and unit 7, cut at its first 0, starts at 4.
C24_Witness ==
    /\ call.op = "plot_conformal_multiple_units"
    /\ call.outcome = "ok"
    /\ call.unit_ids = <<9, 3, 7>>
    /\ call.gap = 2
    /\ Len(call.segments) = 2
    /\ call.segments[1].seg_length = 2
    /\ call.segments[2].offset = 4
    /\ call.segments[2].seg_length < Len(UnitOf(7).raw)

RECURSIVE MinUpTo(_, _)
\* the least of s[1..i]
MinUpTo(s, i) == IF i = 1 THEN s[1] ELSE Min2(MinUpTo(s, i - 1), s[i])

\* C25: clamping and then running the pass gives the trajectory that running
\* the pass and then clamping gives, whichever of the two orders the call
\* site uses, and its i-th value is the larger of 0 and the least of the
\* first i raw values.
C25_OrdersAgree ==
    call.op \in PostOps =>
        /\ MonotonicPass(MapClip0(call.raw)) = MapClip0(MonotonicPass(call.raw))
        /\ call.out = MonotonicPass(MapClip0(call.raw))
        /\ Len(call.out) = Len(call.raw)
        /\ \A i \in 1..Len(call.raw) : call.out[i] = Max2(0, MinUpTo(call.raw, i))

\* C25 witness: the multi-unit plot, which clamps last, post-processed a
\* full-length trajectory with a rise and a negative value whose clamped
\* values differ from what the pass alone gives.
C25_Witness ==
    /\ call.op = "post_multi_unit"
    /\ Len(call.raw) = MaxLen
    /\ HasSpike(call.raw)
    /\ HasNegative(call.raw)
    /\ call.mid # call.out
    /\ MapClip0(call.raw) # MonotonicPass(call.raw)

\* C26: on the calibration set a candidate covers at least the rows that a
\* candidate of smaller margin covers, and with margin_method 'best' the
\* selected margin covers as many calibration rows as every candidate that no
\* other candidate exceeds in margin.
C26_BestCoversAsLargestMargin ==
    (call.op = "per_unit_row" /\ call.margin_method = "best") =>
        /\ \A a \in DOMAIN call.margins : \A b \in DOMAIN call.margins :
               FLe(call.margins[a], call.margins[b]) =>
                   CalCovered(call.margins[a]) <= CalCovered(call.margins[b])
        /\ \A top \in DOMAIN call.margins :
               (\A o \in DOMAIN call.margins : ~FLt(call.margins[top], call.margins[o])) =>
                   CalCovered(call.table["unit"].margin) = CalCovered(call.margins[top])

\* C27: whichever recorded model is the best one, a conformal operation that
\* reaches its reload step binds a model of that architecture: it never gets
\* to the weight loading with no model bound, and what it loads is the best
\* model.
C27_DispatchCoversRecordedNames ==
    (/\ call.op \in ConformalOps
     /\ results_metrics # <<>>
     /\ best_model(results_metrics).s.kind = "fin") =>
        /\ call.outcome # "raise_unbound"
        /\ call.loaded \subseteq {best_model(results_metrics).name}
        /\ call.outcome = "ok" => call.loaded = {best_model(results_metrics).name}

\* the margins that the calibration computes for one alpha on the present
\* data: those of the global table and those of the single-unit table
MarginsFor(alpha) ==
    {FreshGlobalTable(alpha)[m].margin : m \in DOMAIN FreshGlobalTable(alpha)}
        \cup {FreshSingleTable(alpha)[m].margin : m \in DOMAIN FreshSingleTable(alpha)}

\* C28: the margin that a completed multi-unit call applies is a margin
\* computed for the alpha of that call, whatever alphas the calls before it
\* were given.
C28_MarginTargetsCallAlpha ==
    (call.op = "plot_conformal_multiple_units" /\ call.outcome = "ok") =>
        call.best_margin \in MarginsFor(call.alpha)

====
